---------------------------- MODULE Spec2Model ----------------------------
(***************************************************************************)
(* Multi-tenant request handling of the Superset fork:                     *)
(*   - TenantContextMiddleware (superset/middleware/tenant_context.py)     *)
(*     resolves the tenant of a request and stores it in Flask's g;        *)
(*   - MultiTenantSecurityManager (superset/security/custom_manager.py)    *)
(*     puts a tenant check in front of the access decisions;               *)
(*   - TenantManager (superset/utils/tenant_manager.py) derives            *)
(*     tenant-specific artifacts.                                          *)
(*                                                                         *)
(* Python strings are sequences of one-character strings, so that strip,   *)
(* split and lower are computed and not assumed.  Python's None is the     *)
(* value None below, which no string equals.                               *)
(***************************************************************************)
EXTENDS Integers, Sequences, FiniteSets, TLC

VARIABLES
    config,         \* app.config as read by TenantContextMiddleware.__init__
    hasTenantAttr,  \* per resource class: whether it carries a tenant_id attribute
    pc,             \* per request: "idle", "arrived", "resolved", "computing"
                    \* or "answered"
    request,        \* per request: flask.request (headers, host) and g.user
    g,              \* per request: flask.g as written by set_tenant_context
    cache,          \* cache_manager.cache: the backend's kind and the keys it holds
    memo,           \* the lru_cache of TenantManager.is_valid_tenant, oldest first
    pending,        \* per request: the argument of its is_valid_tenant call
                    \* whose body is running
    last            \* the observable result of the latest operation

vars == <<config, hasTenantAttr, pc, request, g, cache, memo, pending, last>>

-----------------------------------------------------------------------------
(* Bounds *)

\* Number of request contexts that can be in flight.
MaxRequests == 2

Requests == 1..MaxRequests

\* The resource classes the gate protects.
Kinds == {"Dashboard", "Chart", "Database", "Datasource"}

\* The classes that carry the attribute: the dataset class and the database
\* class each do or do not; the dashboard and chart classes go with the
\* dataset class.
Deployments ==
    {h \in [Kinds -> BOOLEAN] :
        h["Dashboard"] = h["Datasource"] /\ h["Chart"] = h["Datasource"]}

-----------------------------------------------------------------------------
(* Python values *)

None == <<"<None>">>

\* The outcome of a call that raised AttributeError.
AttributeError == <<"<AttributeError>">>

\* Python truthiness of an Optional[str]: neither None nor "".
Truthy(v) == v # None /\ v # <<>>

Whitespace == {" "}

RECURSIVE LStrip(_)
LStrip(s) ==
    IF s # <<>> /\ Head(s) \in Whitespace THEN LStrip(Tail(s)) ELSE s

RECURSIVE RStrip(_)
RStrip(s) ==
    IF s # <<>> /\ s[Len(s)] \in Whitespace
    THEN RStrip(SubSeq(s, 1, Len(s) - 1))
    ELSE s

\* str.lstrip() in the place of str.strip().
StripLeading(s) == LStrip(s)

\* str.strip()
Strip(s) == RStrip(LStrip(s))

\* str.lower() on the letters the hosts below use.
LowerChar(c) ==
    CASE c = "A" -> "a"
      [] c = "C" -> "c"
      [] c = "O" -> "o"
      [] c = "T" -> "t"
      [] c = "W" -> "w"
      [] OTHER -> c

Lower(s) == [i \in 1..Len(s) |-> LowerChar(s[i])]

\* str.split(sep): the pieces between the separators, "" included.
RECURSIVE SplitFrom(_, _, _)
SplitFrom(s, sep, cur) ==
    IF s = <<>> THEN <<cur>>
    ELSE IF Head(s) = sep THEN <<cur>> \o SplitFrom(Tail(s), sep, <<>>)
    ELSE SplitFrom(Tail(s), sep, Append(cur, Head(s)))

Split(s, sep) == SplitFrom(s, sep, <<>>)

\* str(v) of a claim value or attribute: str(None) is the text "None".
Str(v) == IF v = None THEN <<"N", "o", "n", "e">> ELSE v

-----------------------------------------------------------------------------
(* The values requests and configurations are drawn from *)

AC == <<"a", "c">>
OT == <<"o", "t">>
DF == <<"d", "f">>
DR == <<"d", "r">>
CL == <<"c", "l">>
OG == <<"o", "g">>

HostBare == <<"e", "x", ".", "c", "o">>
HostWww == <<"w", "w", "w", ".">> \o HostBare
HostAc == <<"a", "c", ".">> \o HostBare
HostUpper == <<"O", "t", ".">> \o HostBare
HostEmpty == <<>>
HostSingle == <<"e", "x">>
HostWwwUpper == <<"W", "W", "W", ".">> \o HostBare
HostApiMixed == <<"A", "p", "i", ".">> \o HostBare
HostLeadingDot == <<".">> \o HostBare
HostFour == <<"a", "c", ".", "e", "u", ".">> \o HostBare

DefaultTenantHeader == "X-Tenant-ID"
OtherTenantHeader == "X-Org-ID"
HeaderNames == {DefaultTenantHeader, OtherTenantHeader}

\* The keys a claim mapping may hold; Missing marks a key that is not in it.
ClaimKeys == {"tenant_id", "tenant", "org_id", "organization", "company_id", "Tenant_ID"}
Missing == <<"<Missing>">>
NoClaims == [k \in ClaimKeys |-> Missing]
Claims(k, v) == [NoClaims EXCEPT ![k] = v]
Claims2(k1, v1, k2, v2) == [NoClaims EXCEPT ![k1] = v1, ![k2] = v2]

\* user.extra: absent/empty, a string json.loads rejects, a JSON text that is
\* not a mapping, or a claim mapping.  Of the JSON texts that are not mappings
\* a number or null makes "claim in user_extra" raise TypeError; a list that
\* holds none of the claim names answers False to it.
NoExtra == [kind |-> "none", claims |-> NoClaims]
MalformedExtra == [kind |-> "malformed", claims |-> NoClaims]
ScalarExtra == [kind |-> "scalar", claims |-> NoClaims]
ListExtra == [kind |-> "list", claims |-> NoClaims]
MapExtra(m) == [kind |-> "map", claims |-> m]

\* g.user: not set on g, set to None, or a user object.
UserAbsent == [kind |-> "absent", admin |-> FALSE, tenant_id |-> None, extra |-> NoExtra]
UserNone == [kind |-> "none", admin |-> FALSE, tenant_id |-> None, extra |-> NoExtra]
User(a, t, e) == [kind |-> "user", admin |-> a, tenant_id |-> t, extra |-> e]

Req(hd, ho, h, u) ==
    [headers |-> (DefaultTenantHeader :> hd) @@ (OtherTenantHeader :> ho),
     host |-> h, user |-> u]

IdleRequest == Req(None, None, <<>>, UserAbsent)

\* Request inputs of the resolution specification.
ResolveHeaderValues == {None, <<>>, <<" ">>, <<" ">> \o AC \o <<" ">>, OT}
ResolveOtherHeaderValues == {None, OT}
ResolveHosts ==
    {HostBare, HostWww, HostAc, HostUpper, HostEmpty, HostSingle, HostWwwUpper,
     HostApiMixed, HostLeadingDot, HostFour}
ResolveExtras ==
    {NoExtra, MalformedExtra, ScalarExtra, ListExtra,
     MapExtra(Claims("tenant_id", CL)),
     MapExtra(Claims("org_id", OG)),
     MapExtra(Claims("tenant_id", None)),
     MapExtra(Claims("Tenant_ID", CL)),
     MapExtra(Claims2("tenant", CL, "company_id", OG)),
     MapExtra(Claims2("Tenant_ID", CL, "organization", OG))}
ResolveUsers ==
    {UserAbsent, UserNone}
    \cup {User(a, t, e) : a \in BOOLEAN, t \in {None, DR}, e \in ResolveExtras}
ResolveRequests ==
    {Req(hd, ho, h, u) : hd \in ResolveHeaderValues, ho \in ResolveOtherHeaderValues,
                         h \in ResolveHosts, u \in ResolveUsers}
ResolveConfigs ==
    [tenant_header : HeaderNames,
     enable_subdomain_routing : BOOLEAN,
     default_tenant : {None, DF}]

\* Request inputs of the access-decision specification.
GateUsers ==
    {UserNone, User(FALSE, None, NoExtra), User(TRUE, None, NoExtra),
     User(FALSE, None, MapExtra(Claims("tenant_id", AC)))}
GateRequests ==
    {Req(hd, None, h, u) : hd \in {None, <<>>, AC, OT}, h \in {HostWww, HostBare},
                           u \in GateUsers}
GateConfigs ==
    [tenant_header : {DefaultTenantHeader},
     enable_subdomain_routing : BOOLEAN,
     default_tenant : {None, AC}]

-----------------------------------------------------------------------------
(* TenantContextMiddleware *)

ExcludedSubdomains ==
    {<<"w", "w", "w">>, <<"a", "p", "i">>, <<"a", "d", "m", "i", "n">>,
     <<"s", "t", "a", "t", "i", "c">>, <<"c", "d", "n">>}

\* extract_tenant_from_subdomain comparing the label as it was sent with the
\* excluded names.
extract_tenant_from_subdomain_as_sent(cfg, host) ==
    IF ~cfg.enable_subdomain_routing \/ host = <<>> THEN None
    ELSE LET parts == Split(host, ".")
         IN IF Len(parts) > 2 /\ parts[1] \notin ExcludedSubdomains
            THEN Lower(parts[1])
            ELSE None

extract_tenant_from_subdomain(cfg, host) ==
    IF ~cfg.enable_subdomain_routing \/ host = <<>> THEN None
    ELSE LET parts == Split(host, ".")
         IN IF Len(parts) > 2 /\ Lower(parts[1]) \notin ExcludedSubdomains
            THEN Lower(parts[1])
            ELSE None

\* The claim names scanned from the last to the first.
tenant_claims_reversed == <<"company_id", "organization", "org_id", "tenant", "tenant_id">>

tenant_claims == <<"tenant_id", "tenant", "org_id", "organization", "company_id">>

\* The claims of tenant_claims present in the mapping, in the list's order.
PresentClaims(m) ==
    SelectSeq(tenant_claims, LAMBDA c : m[c] # Missing)

\* The payloads on which the try block raises: json.loads raises
\* JSONDecodeError, or the membership test raises TypeError.
RaisingExtras == {"malformed", "scalar"}

\* Whether extract_tenant_from_oidc_claims logs its warning (line 99).
oidc_warning(user) == user.kind = "user" /\ user.extra.kind \in RaisingExtras

extract_tenant_from_oidc_claims(user) ==
    IF user.kind # "user" THEN None
    ELSE IF user.extra.kind \in RaisingExtras THEN None   \* caught, logged
    ELSE IF user.extra.kind = "map" /\ PresentClaims(user.extra.claims) # <<>>
         THEN Str(user.extra.claims[Head(PresentClaims(user.extra.claims))])
    ELSE IF Truthy(user.tenant_id) THEN Str(user.tenant_id)
    ELSE None

\* set_tenant_context up to the write into g: the (tenant_id, source) pair.
ResolveTenant(cfg, rq) ==
    LET header_tenant == rq.headers[cfg.tenant_header]
        t1 == IF Truthy(header_tenant) THEN Strip(header_tenant) ELSE None
        s1 == IF Truthy(header_tenant) THEN "header" ELSE "none"
        subdomain_tenant == extract_tenant_from_subdomain(cfg, rq.host)
        use2 == ~Truthy(t1) /\ Truthy(subdomain_tenant)
        t2 == IF use2 THEN subdomain_tenant ELSE t1
        s2 == IF use2 THEN "subdomain" ELSE s1
        oidc_tenant == extract_tenant_from_oidc_claims(rq.user)
        use3 == ~Truthy(t2) /\ Truthy(oidc_tenant)
        t3 == IF use3 THEN oidc_tenant ELSE t2
        s3 == IF use3 THEN "oidc" ELSE s2
        use4 == ~Truthy(t3) /\ Truthy(cfg.default_tenant)
        t4 == IF use4 THEN cfg.default_tenant ELSE t3
        s4 == IF use4 THEN "default" ELSE s3
    IN [set |-> TRUE, tenant_id |-> t4, tenant_source |-> s4]

\* What set_tenant_context did on the way: which extractors it called, what
\* they returned, and whether the claim extractor logged its warning.
NotCalled == <<"<NotCalled>">>

ResolveTrace(cfg, rq) ==
    LET header_tenant == rq.headers[cfg.tenant_header]
        t1 == IF Truthy(header_tenant) THEN Strip(header_tenant) ELSE None
        subdomain_tenant == extract_tenant_from_subdomain(cfg, rq.host)
        t2 == IF ~Truthy(t1) /\ Truthy(subdomain_tenant) THEN subdomain_tenant ELSE t1
    IN [subdomain_tenant |-> IF ~Truthy(t1) THEN subdomain_tenant ELSE NotCalled,
        oidc_tenant |-> IF ~Truthy(t2) THEN extract_tenant_from_oidc_claims(rq.user)
                        ELSE NotCalled,
        oidc_warning |-> ~Truthy(t2) /\ oidc_warning(rq.user),
        raised |-> FALSE]

\* flask.g of a request before the before_request hook has run.
EmptyG == [set |-> FALSE, tenant_id |-> None, tenant_source |-> "none"]

NoOp == [op |-> "none", r |-> 0]

\* cache_manager.cache with nothing stored in it.  The backend is "basic" (no
\* delete_many), "batch" (delete_many, but no scan_iter on cache.cache) or
\* "redis" (both).
CacheBackends == {"basic", "batch", "redis"}
EmptyCache == [backend |-> "redis", keys |-> {}]

-----------------------------------------------------------------------------
(* MultiTenantSecurityManager.get_current_tenant_id *)

\* The tenant the user object yields (custom_manager.py lines 64-77): the
\* direct attribute, else the "tenant_id" claim, unconverted; Missing when
\* neither is there.
UserTenant(user) ==
    IF user.kind # "user" THEN Missing
    ELSE IF Truthy(user.tenant_id) THEN user.tenant_id
    ELSE IF user.extra.kind = "map" /\ user.extra.claims["tenant_id"] # Missing
         THEN user.extra.claims["tenant_id"]
    ELSE Missing

\* request.host.split('.')[0], when it is non-empty and not "www".
HostTenant(host) ==
    IF host = <<>> THEN Missing
    ELSE LET subdomain == Split(host, ".")[1]
         IN IF subdomain # <<>> /\ subdomain # <<"w", "w", "w">>
            THEN subdomain
            ELSE Missing

\* security_manager.is_admin() for the request's principal.
is_admin(rq) == rq.user.kind = "user" /\ rq.user.admin

\* ADMIN_SEE_ALL_TENANTS only chooses between two paths that both return
\* None; a non-administrator, or an administrator with the flag off, goes
\* through the warning of line 99, which reads g.user.username and so raises
\* AttributeError when g.user is None.
GateTenant(ctx, rq) ==
    IF ctx.set /\ Truthy(ctx.tenant_id) THEN ctx.tenant_id
    ELSE IF UserTenant(rq.user) # Missing THEN UserTenant(rq.user)
    ELSE IF HostTenant(rq.host) # Missing THEN HostTenant(rq.host)
    ELSE IF is_admin(rq) /\ Truthy(rq.headers[DefaultTenantHeader])
         THEN rq.headers[DefaultTenantHeader]
    ELSE IF is_admin(rq) THEN None
    ELSE IF rq.user.kind = "none" THEN AttributeError
    ELSE None

\* TenantManager.get_current_tenant_id: getattr(g, "tenant_id", None).
TMTenant(ctx) == IF ctx.set THEN ctx.tenant_id ELSE None

-----------------------------------------------------------------------------
(* Request lifecycle *)

Idle(r) == pc[r] = "idle"

\* A request enters the application; one request is handled at a time.
Arrive(r, inputs) ==
    /\ \A q \in Requests : Idle(q)
    /\ r = 1
    /\ \E rq \in inputs :
         request' = [request EXCEPT ![r] = rq]
    /\ pc' = [pc EXCEPT ![r] = "arrived"]
    /\ g' = [g EXCEPT ![r] = EmptyG]
    /\ last' = NoOp
    /\ UNCHANGED <<config, hasTenantAttr, cache, memo, pending>>

\* A request enters the application while others may be in flight.
Enter(r, inputs) ==
    /\ Idle(r)
    /\ \E rq \in inputs :
         request' = [request EXCEPT ![r] = rq]
    /\ pc' = [pc EXCEPT ![r] = "arrived"]
    /\ g' = [g EXCEPT ![r] = EmptyG]
    /\ last' = NoOp
    /\ UNCHANGED <<config, hasTenantAttr, cache, memo, pending>>

\* set_tenant_context writing into one slot shared by all requests.
set_tenant_context_shared(r) ==
    /\ pc[r] = "arrived"
    /\ g' = [q \in Requests |-> ResolveTenant(config, request[r])]
    /\ pc' = [pc EXCEPT ![r] = "resolved"]
    /\ last' = [op |-> "set_tenant_context", r |-> r,
                trace |-> ResolveTrace(config, request[r])]
    /\ UNCHANGED <<config, hasTenantAttr, cache, memo, pending, request>>

\* The before_request hook: TenantContextMiddleware(app).set_tenant_context().
set_tenant_context(r) ==
    /\ pc[r] = "arrived"
    /\ g' = [g EXCEPT ![r] = ResolveTenant(config, request[r])]
    /\ pc' = [pc EXCEPT ![r] = "resolved"]
    /\ last' = [op |-> "set_tenant_context", r |-> r,
                trace |-> ResolveTrace(config, request[r])]
    /\ UNCHANGED <<config, hasTenantAttr, cache, memo, pending, request>>

\* MultiTenantSecurityManager.get_current_tenant_id() called by the view.
get_current_tenant_id(r) ==
    /\ pc[r] = "resolved"
    /\ pc' = [pc EXCEPT ![r] = "answered"]
    /\ last' = [op |-> "get_current_tenant_id", r |-> r,
                out |-> GateTenant(g[r], request[r])]
    /\ UNCHANGED <<config, hasTenantAttr, cache, memo, pending, request, g>>

\* TenantManager.get_current_tenant_id() called by the view.
tm_get_current_tenant_id(r) ==
    /\ pc[r] = "resolved"
    /\ pc' = [pc EXCEPT ![r] = "answered"]
    /\ last' = [op |-> "tm_get_current_tenant_id", r |-> r,
                out |-> TMTenant(g[r])]
    /\ UNCHANGED <<config, hasTenantAttr, cache, memo, pending, request, g>>

\* The view takes the answer of the call it made and goes on.
Continue(r) ==
    /\ pc[r] = "answered"
    /\ pc' = [pc EXCEPT ![r] = "resolved"]
    /\ last' = NoOp
    /\ UNCHANGED <<config, hasTenantAttr, cache, memo, pending, request, g>>

\* The request ends and its context is torn down.
Teardown(r) ==
    /\ pc[r] = "resolved"
    /\ pc' = [pc EXCEPT ![r] = "idle"]
    /\ request' = [request EXCEPT ![r] = IdleRequest]
    /\ g' = [g EXCEPT ![r] = EmptyG]
    /\ last' = NoOp
    /\ UNCHANGED <<config, hasTenantAttr, cache, memo, pending>>

InitCommon ==
    /\ pc = [r \in Requests |-> "idle"]
    /\ request = [r \in Requests |-> IdleRequest]
    /\ g = [r \in Requests |-> EmptyG]
    /\ memo = <<>>
    /\ pending = [r \in Requests |-> NotCalled]
    /\ last = NoOp

-----------------------------------------------------------------------------
(* Resolution specification: every combination of the request signals,    *)
(* the resolver and the two tenant look-ups.                               *)

InitResolve ==
    /\ config \in ResolveConfigs
    /\ hasTenantAttr = [k \in Kinds |-> TRUE]
    /\ cache = EmptyCache
    /\ InitCommon

ArriveResolve(r) == Arrive(r, ResolveRequests)

NextResolve ==
    \E r \in Requests :
        \/ ArriveResolve(r)
        \/ set_tenant_context(r)
        \/ get_current_tenant_id(r)
        \/ tm_get_current_tenant_id(r)
        \/ Continue(r)
        \/ Teardown(r)

SpecResolve == InitResolve /\ [][NextResolve]_vars

-----------------------------------------------------------------------------
(* Protected resources.  tenant_id is the value of the nullable column; the *)
(* attribute itself exists on an object only when hasTenantAttr holds for   *)
(* its class.                                                               *)

Resource(k, i, t, d) == [kind |-> k, id |-> i, tenant_id |-> t, database_id |-> d]

\* An argument that was not supplied (Python's None default).
NoResource == Resource("none", 0, None, 0)

Dashboards == {Resource("Dashboard", 11, AC, 0), Resource("Dashboard", 12, None, 0)}
Charts == {Resource("Chart", 21, OT, 0), Resource("Chart", 22, None, 0)}
Databases ==
    {Resource("Database", 1, AC, 0), Resource("Database", 2, OT, 0),
     Resource("Database", 3, None, 0)}
Datasources ==
    {Resource("Datasource", 31, AC, 1), Resource("Datasource", 32, AC, 2),
     Resource("Datasource", 33, OT, 1), Resource("Datasource", 34, None, 3)}

\* Rows of saved_query, which carries the tenant_id column as well.
SavedQueries ==
    {Resource("SavedQuery", 41, AC, 0), Resource("SavedQuery", 42, OT, 0),
     Resource("SavedQuery", 43, None, 0)}

\* datasource.database
DatabaseOf(ds) == CHOOSE db \in Databases : db.id = ds.database_id

\* The table names handed to get_datasources_accessible_by_user and the lists
\* the parent class may answer with.
DatasourceNames == <<"table1", "table2">>
UnderlyingNameLists == {<<>>, <<"table1">>, DatasourceNames}

-----------------------------------------------------------------------------
(* MultiTenantSecurityManager: the access decisions.  Each takes the tenant *)
(* get_current_tenant_id() gave (t) and the answer of the parent class      *)
(* (under), and yields [status, calls, value]: status is "return" or the    *)
(* exception raised, calls lists the argument tuples of the invocations of  *)
(* the parent class's method of the same name.                              *)

Returned(calls, v) == [status |-> "return", calls |-> calls, value |-> v]
Raised(exc, calls, v) == [status |-> exc, calls |-> calls, value |-> v]

\* can_access_database without the tenant check.
can_access_database_unchecked(t, attr, database, under) ==
    IF t = AttributeError THEN Raised("AttributeError", <<>>, FALSE)
    ELSE Returned(<< <<database>> >>, under)

can_access_database(t, attr, database, under) ==
    IF t = AttributeError THEN Raised("AttributeError", <<>>, FALSE)
    ELSE IF t # None /\ attr["Database"] /\ database.tenant_id # t
         THEN Returned(<<>>, FALSE)
    ELSE Returned(<< <<database>> >>, under)

can_access_datasource(t, attr, datasource, under) ==
    IF t = AttributeError THEN Raised("AttributeError", <<>>, FALSE)
    ELSE IF t # None /\ attr["Datasource"] /\ datasource.tenant_id # t
         THEN Returned(<<>>, FALSE)
    ELSE IF attr["Database"] /\ t # None /\ DatabaseOf(datasource).tenant_id # t
         THEN Returned(<<>>, FALSE)
    ELSE Returned(<< <<datasource>> >>, under)

\* The message of the SupersetSecurityException raise_for_access raises.
AccessDenied(res, t) == [kind |-> res.kind, id |-> res.id, tenant |-> t]
NoMessage == [kind |-> "none", id |-> 0, tenant |-> None]

\* The supplied resources, in the order raise_for_access examines them.
Supplied(dashboard, chart, database, datasource) ==
    SelectSeq(<<dashboard, chart, database, datasource>>,
              LAMBDA res : res # NoResource)

\* raise_for_access examining only the first resource it was given.
raise_for_access_first_only(t, attr, dashboard, chart, database, datasource, underRaises) ==
    LET given == Supplied(dashboard, chart, database, datasource)
        denied == IF given # <<>> /\ attr[Head(given).kind] /\ Head(given).tenant_id # t
                  THEN <<Head(given)>> ELSE <<>>
        parent == << <<dashboard, chart, database, datasource>> >>
    IN IF t = AttributeError THEN Raised("AttributeError", <<>>, NoMessage)
       ELSE IF t # None /\ denied # <<>>
            THEN Raised("SupersetSecurityException", <<>>, AccessDenied(Head(denied), t))
       ELSE IF underRaises THEN Raised("underlying", parent, NoMessage)
       ELSE Returned(parent, NoMessage)

\* underRaises: whether the parent's raise_for_access raises for these arguments.
raise_for_access(t, attr, dashboard, chart, database, datasource, underRaises) ==
    LET denied == SelectSeq(Supplied(dashboard, chart, database, datasource),
                            LAMBDA res : attr[res.kind] /\ res.tenant_id # t)
        parent == << <<dashboard, chart, database, datasource>> >>
    IN IF t = AttributeError THEN Raised("AttributeError", <<>>, NoMessage)
       ELSE IF t # None /\ denied # <<>>
            THEN Raised("SupersetSecurityException", <<>>, AccessDenied(Head(denied), t))
       ELSE IF underRaises THEN Raised("underlying", parent, NoMessage)
       ELSE Returned(parent, NoMessage)

\* raise_for_access given one more object by keyword (query stands for the
\* **kwargs): the method never looks at it and hands it on to the parent.
raise_for_access_kwargs(t, attr, dashboard, chart, database, datasource, query, underRaises) ==
    LET d == raise_for_access(t, attr, dashboard, chart, database, datasource, underRaises)
    IN [d EXCEPT !.calls = IF d.calls = <<>> THEN <<>>
                           ELSE << <<dashboard, chart, database, datasource, query>> >>]

\* get_user_datasources without the tenant filter on the datasets the access
\* filter lets through.
get_user_datasources_unfiltered(t, attr, acc, dbAcc, underList) ==
    IF t = AttributeError THEN Raised("AttributeError", <<>>, {})
    ELSE IF t = None THEN Returned(<< <<>> >>, underList)
    ELSE LET databases == {db \in Databases : attr["Database"] => db.tenant_id = t}
             allowed == {db \in databases :
                            LET d == can_access_database(t, attr, db, db \in dbAcc)
                            IN d.status = "return" /\ d.value}
             by_database == {ds \in Datasources :
                                /\ DatabaseOf(ds) \in allowed
                                /\ attr["Datasource"] => ds.tenant_id = t}
         IN Returned(<<>>, acc \cup by_database)

\* acc: the datasets get_dataset_access_filters lets through; dbAcc: the
\* databases the parent's can_access_database allows; underList: the parent's
\* get_user_datasources().
get_user_datasources(t, attr, acc, dbAcc, underList) ==
    IF t = AttributeError THEN Raised("AttributeError", <<>>, {})
    ELSE IF t = None THEN Returned(<< <<>> >>, underList)
    ELSE LET by_filter == {ds \in acc : attr["Datasource"] => ds.tenant_id = t}
             databases == {db \in Databases : attr["Database"] => db.tenant_id = t}
             allowed == {db \in databases :
                            LET d == can_access_database(t, attr, db, db \in dbAcc)
                            IN d.status = "return" /\ d.value}
             by_database == {ds \in Datasources :
                                /\ DatabaseOf(ds) \in allowed
                                /\ attr["Datasource"] => ds.tenant_id = t}
         IN Returned(<<>>, by_filter \cup by_database)

get_datasources_accessible_by_user(t, attr, database, under) ==
    IF t = AttributeError THEN Raised("AttributeError", <<>>, <<>>)
    ELSE IF t # None /\ attr["Database"] /\ database.tenant_id # t
         THEN Returned(<<>>, <<>>)
    ELSE Returned(<< <<database, DatasourceNames>> >>, under)

-----------------------------------------------------------------------------
(* The access decisions as steps of a request *)

\* The view calls the security manager and holds its answer.
Decide(r, op, args, under, result) ==
    /\ pc' = [pc EXCEPT ![r] = "answered"]
    /\ last' = [op |-> op, r |-> r, tenant |-> GateTenant(g[r], request[r]),
                args |-> args, under |-> under, out |-> result]
    /\ UNCHANGED <<config, hasTenantAttr, cache, memo, pending, request, g>>

\* Each decision is written for the sets its arguments and the parent's
\* answer are drawn from, and then for all of them.
CanAccessDatabaseOn(r, databases, unders) ==
    /\ pc[r] = "resolved"
    /\ \E database \in databases, under \in unders :
        Decide(r, "can_access_database", <<database>>, under,
               can_access_database(GateTenant(g[r], request[r]), hasTenantAttr,
                                   database, under))

CanAccessDatabase(r) == CanAccessDatabaseOn(r, Databases, BOOLEAN)

CanAccessDatasourceOn(r, datasources, unders) ==
    /\ pc[r] = "resolved"
    /\ \E datasource \in datasources, under \in unders :
        Decide(r, "can_access_datasource", <<datasource>>, under,
               can_access_datasource(GateTenant(g[r], request[r]), hasTenantAttr,
                                     datasource, under))

CanAccessDatasource(r) == CanAccessDatasourceOn(r, Datasources, BOOLEAN)

RaiseForAccessOn(r, dashboards, charts, databases, datasources, unders) ==
    /\ pc[r] = "resolved"
    /\ \E dashboard \in dashboards,
          chart \in charts,
          database \in databases,
          datasource \in datasources,
          underRaises \in unders :
        Decide(r, "raise_for_access", <<dashboard, chart, database, datasource>>,
               underRaises,
               raise_for_access(GateTenant(g[r], request[r]), hasTenantAttr,
                                dashboard, chart, database, datasource, underRaises))

RaiseForAccess(r) ==
    RaiseForAccessOn(r, Dashboards \cup {NoResource}, Charts \cup {NoResource},
                     Databases \cup {NoResource}, Datasources \cup {NoResource},
                     BOOLEAN)

RaiseForAccessKwargsOn(r, dashboards, charts, databases, datasources, queries, unders) ==
    /\ pc[r] = "resolved"
    /\ \E dashboard \in dashboards,
          chart \in charts,
          database \in databases,
          datasource \in datasources,
          query \in queries,
          underRaises \in unders :
        Decide(r, "raise_for_access_kwargs",
               <<dashboard, chart, database, datasource, query>>, underRaises,
               raise_for_access_kwargs(GateTenant(g[r], request[r]), hasTenantAttr,
                                       dashboard, chart, database, datasource,
                                       query, underRaises))

\* A saved query, alone or next to a database.
RaiseForAccessKwargs(r) ==
    RaiseForAccessKwargsOn(r, {NoResource}, {NoResource}, Databases \cup {NoResource},
                           {NoResource}, SavedQueries, BOOLEAN)

\* With no tenant only the parent's listing is consulted, with a tenant only
\* the access filter and the parent's database check are.
GetUserDatasourcesOn(r, accs, dbAccs, underLists) ==
    /\ pc[r] = "resolved"
    /\ \E acc \in (IF GateTenant(g[r], request[r]) = None
                   THEN {{}} ELSE accs),
          dbAcc \in (IF GateTenant(g[r], request[r]) = None
                     THEN {{}} ELSE dbAccs),
          underList \in (IF GateTenant(g[r], request[r]) = None
                         THEN underLists ELSE {{}}) :
        Decide(r, "get_user_datasources", <<>>,
               [acc |-> acc, dbAcc |-> dbAcc, underList |-> underList],
               get_user_datasources(GateTenant(g[r], request[r]), hasTenantAttr,
                                    acc, dbAcc, underList))

GetUserDatasources(r) ==
    GetUserDatasourcesOn(r, SUBSET Datasources, SUBSET Databases, SUBSET Datasources)

GetDatasourcesAccessibleByUserOn(r, databases, unders) ==
    /\ pc[r] = "resolved"
    /\ \E database \in databases, under \in unders :
        Decide(r, "get_datasources_accessible_by_user", <<database>>, under,
               get_datasources_accessible_by_user(GateTenant(g[r], request[r]),
                                                  hasTenantAttr, database, under))

GetDatasourcesAccessibleByUser(r) ==
    GetDatasourcesAccessibleByUserOn(r, Databases, UnderlyingNameLists)

-----------------------------------------------------------------------------
(* Access-decision specification: a request is resolved and the view then  *)
(* asks the security manager for decisions.                                *)

Init ==
    /\ config \in GateConfigs
    /\ hasTenantAttr \in Deployments
    /\ cache = EmptyCache
    /\ InitCommon

ArriveGate(r) == Arrive(r, GateRequests)

Next ==
    \E r \in Requests :
        \/ ArriveGate(r)
        \/ set_tenant_context(r)
        \/ get_current_tenant_id(r)
        \/ tm_get_current_tenant_id(r)
        \/ CanAccessDatabase(r)
        \/ CanAccessDatasource(r)
        \/ RaiseForAccess(r)
        \/ RaiseForAccessKwargs(r)
        \/ GetUserDatasources(r)
        \/ GetDatasourcesAccessibleByUser(r)
        \/ Continue(r)
        \/ Teardown(r)

Spec == Init /\ [][Next]_vars

-----------------------------------------------------------------------------
(* TenantManager.is_valid_tenant *)

\* Arguments that are not strings: None, the integer 123 and a list.  A list
\* is unhashable, so the lru_cache wrapper raises TypeError on it before the
\* function body runs.
Int123 == <<"<int 123>">>
EmptyList == <<"<list []>">>
NonStrings == {None, Int123, EmptyList}
Unhashable == {EmptyList}

\* bool(v) of an argument.
PyTruthy(v) == v \notin {None, EmptyList, <<>>}

AsciiLetters ==
    {"a", "b", "c", "d", "e", "f", "g", "h", "i", "j", "k", "l", "m",
     "n", "o", "p", "q", "r", "s", "t", "u", "v", "w", "x", "y", "z",
     "A", "B", "C", "D", "E", "F", "G", "H", "I", "J", "K", "L", "M",
     "N", "O", "P", "Q", "R", "S", "T", "U", "V", "W", "X", "Y", "Z"}
AsciiDigits == {"0", "1", "2", "3", "4", "5", "6", "7", "8", "9"}

\* The characters str.isalnum() accepts: it follows Unicode, so an accented
\* letter is alphanumeric too.
AlnumChars == AsciiLetters \cup AsciiDigits \cup {"é"}

\* str.isalnum(): every character alphanumeric and at least one character.
IsAlnum(s) == s # <<>> /\ \A i \in 1..Len(s) : s[i] \in AlnumChars

\* str.replace(c, "") for a one-character c.
Remove(s, c) == SelectSeq(s, LAMBDA x : x # c)

MinTenantLen == 2
MaxTenantLen == 50

\* is_valid_tenant accepting whatever the length allows.
is_valid_tenant_any_chars(tenant_id) ==
    IF ~PyTruthy(tenant_id) \/ tenant_id \in NonStrings THEN FALSE
    ELSE IF Len(tenant_id) < MinTenantLen \/ Len(tenant_id) > MaxTenantLen THEN FALSE
    ELSE TRUE

\* The body of is_valid_tenant.
is_valid_tenant(tenant_id) ==
    IF ~PyTruthy(tenant_id) \/ tenant_id \in NonStrings THEN FALSE
    ELSE IF Len(tenant_id) < MinTenantLen \/ Len(tenant_id) > MaxTenantLen THEN FALSE
    ELSE IF ~IsAlnum(Remove(Remove(tenant_id, "-"), "_")) THEN FALSE
    ELSE TRUE

\* functools.lru_cache(maxsize=100): entries [arg, result], least recently
\* used first.
maxsize == 100

MemoIndex(m, arg) == {i \in 1..Len(m) : m[i].arg = arg}

MemoWithout(m, arg) == SelectSeq(m, LAMBDA e : e.arg # arg)

\* The cache after a call with arg that returned result: the entry becomes
\* the most recently used one, and the least recently used one is dropped
\* when the cache is over its size.
MemoTouch(m, arg, result) ==
    LET m2 == Append(MemoWithout(m, arg), [arg |-> arg, result |-> result])
    IN IF Len(m2) > maxsize THEN Tail(m2) ELSE m2

\* What a call of the decorated is_valid_tenant answers with cache m.
cached_is_valid_tenant(m, arg) ==
    IF arg \in Unhashable THEN Raised("TypeError", <<>>, FALSE)
    ELSE IF MemoIndex(m, arg) # {}
         THEN Returned(<<>>, m[CHOOSE i \in MemoIndex(m, arg) : TRUE].result)
    ELSE Returned(<<>>, is_valid_tenant(arg))

\* Number of distinct arguments the calls explored may memoize.
MaxMemoized == 2

Repeat(c, n) == [i \in 1..n |-> c]

ValidateInputs ==
    {<<>>, <<"a">>, <<"a", "b">>, <<"a", "1">>, <<"A", "_">>, <<"a", "-", "b">>,
     <<"-", "-">>, <<"a", " ">>, <<"a", "@">>, <<"é", "é">>,
     Repeat("a", MaxTenantLen), Repeat("a", MaxTenantLen + 1),
     None, Int123, EmptyList}

IsValidTenant(r) ==
    /\ pc[r] = "resolved"
    /\ \E arg \in ValidateInputs :
         /\ MemoIndex(memo, arg) = {} => Len(memo) < MaxMemoized
         /\ LET out == cached_is_valid_tenant(memo, arg)
            IN /\ last' = [op |-> "is_valid_tenant", r |-> r, args |-> <<arg>>,
                           out |-> out]
               /\ memo' = IF out.status = "return"
                          THEN MemoTouch(memo, arg, out.value)
                          ELSE memo
    /\ pc' = [pc EXCEPT ![r] = "answered"]
    /\ UNCHANGED <<config, hasTenantAttr, cache, pending, request, g>>

\* Validation specification: calls of is_valid_tenant within a request.
ValidateRequests == {Req(None, None, HostBare, User(FALSE, None, NoExtra))}

InitValidate ==
    /\ config = [tenant_header |-> DefaultTenantHeader,
                 enable_subdomain_routing |-> FALSE, default_tenant |-> None]
    /\ hasTenantAttr = [k \in Kinds |-> TRUE]
    /\ cache = EmptyCache
    /\ InitCommon

ArriveValidate(r) == Arrive(r, ValidateRequests)

NextValidate ==
    \E r \in Requests :
        \/ ArriveValidate(r)
        \/ set_tenant_context(r)
        \/ IsValidTenant(r)
        \/ Continue(r)
        \/ Teardown(r)

SpecValidate == InitValidate /\ [][NextValidate]_vars

-----------------------------------------------------------------------------
(* is_valid_tenant called from concurrent requests.  A call is two steps:   *)
(* the lru_cache wrapper hashes the argument and looks it up; on a miss the *)
(* body runs, other requests running meanwhile, and the wrapper then stores *)
(* the result.                                                              *)

\* The cache after a hit on arg: the entry becomes the most recently used.
MemoHit(m, arg) ==
    LET i == CHOOSE j \in MemoIndex(m, arg) : TRUE
    IN Append(MemoWithout(m, arg), m[i])

\* The cache after the body returned result for arg: nothing changes when
\* another call stored arg meanwhile; a cache that is full gives up its least
\* recently used entry.
MemoStore(m, arg, result) ==
    IF MemoIndex(m, arg) # {} THEN m
    ELSE IF Len(m) < maxsize THEN Append(m, [arg |-> arg, result |-> result])
    ELSE Append(Tail(m), [arg |-> arg, result |-> result])

\* Tenant ids "t00" .. "t99", and the cache that calls with the first n of
\* them, in that order, leave behind.
DigitChars == <<"0", "1", "2", "3", "4", "5", "6", "7", "8", "9">>
Seed(i) == <<"t", DigitChars[(i \div 10) + 1], DigitChars[(i % 10) + 1]>>
SeededMemo(n) ==
    IF n = 0 THEN <<>>
    ELSE [i \in 1..n |-> [arg |-> Seed(i - 1), result |-> is_valid_tenant(Seed(i - 1))]]

\* Misses on a full cache are explored while its least recently used entry
\* is one of the first MaxEvicted + 1 seeds.
MaxEvicted == 2

MemoInputs ==
    {Seed(0), Seed(maxsize - 1), <<"a", "b">>, <<"-", "-">>, EmptyList}

IsValidTenantCall(r) ==
    /\ pc[r] = "resolved"
    /\ \E arg \in MemoInputs :
         IF arg \in Unhashable
         THEN /\ last' = [op |-> "is_valid_tenant", r |-> r, args |-> <<arg>>,
                          out |-> Raised("TypeError", <<>>, FALSE)]
              /\ pc' = [pc EXCEPT ![r] = "answered"]
              /\ UNCHANGED <<memo, pending>>
         ELSE IF MemoIndex(memo, arg) # {}
         THEN /\ last' = [op |-> "is_valid_tenant", r |-> r, args |-> <<arg>>,
                          out |-> cached_is_valid_tenant(memo, arg)]
              /\ memo' = MemoHit(memo, arg)
              /\ pc' = [pc EXCEPT ![r] = "answered"]
              /\ UNCHANGED pending
         ELSE /\ Len(memo) = maxsize =>
                    Head(memo).arg \in {Seed(i) : i \in 0..MaxEvicted}
              /\ pending' = [pending EXCEPT ![r] = arg]
              /\ pc' = [pc EXCEPT ![r] = "computing"]
              /\ last' = NoOp
              /\ UNCHANGED memo
    /\ UNCHANGED <<config, hasTenantAttr, cache, request, g>>

IsValidTenantReturn(r) ==
    /\ pc[r] = "computing"
    /\ LET result == is_valid_tenant(pending[r])
       IN /\ memo' = MemoStore(memo, pending[r], result)
          /\ last' = [op |-> "is_valid_tenant", r |-> r, args |-> <<pending[r]>>,
                      out |-> Returned(<<>>, result)]
    /\ pending' = [pending EXCEPT ![r] = NotCalled]
    /\ pc' = [pc EXCEPT ![r] = "answered"]
    /\ UNCHANGED <<config, hasTenantAttr, cache, request, g>>

\* Memoization specification: requests running at the same time call
\* is_valid_tenant, on a cache that earlier calls left empty, one short of
\* full, or full.
InitMemo ==
    /\ config = [tenant_header |-> DefaultTenantHeader,
                 enable_subdomain_routing |-> FALSE, default_tenant |-> None]
    /\ hasTenantAttr = [k \in Kinds |-> TRUE]
    /\ cache = EmptyCache
    /\ pc = [r \in Requests |-> "idle"]
    /\ request = [r \in Requests |-> IdleRequest]
    /\ g = [r \in Requests |-> EmptyG]
    /\ memo \in {SeededMemo(0), SeededMemo(maxsize - 1), SeededMemo(maxsize)}
    /\ pending = [r \in Requests |-> NotCalled]
    /\ last = NoOp

EnterMemo(r) == Enter(r, ValidateRequests)

NextMemo ==
    \E r \in Requests :
        \/ EnterMemo(r)
        \/ set_tenant_context(r)
        \/ IsValidTenantCall(r)
        \/ IsValidTenantReturn(r)
        \/ Continue(r)
        \/ Teardown(r)

SpecMemo == InitMemo /\ [][NextMemo]_vars

-----------------------------------------------------------------------------
(* TenantManager: cache keys, filter clauses, cache invalidation *)

TenantPrefix == <<"t", "e", "n", "a", "n", "t", ":">>
GlobalPrefix == <<"g", "l", "o", "b", "a", "l", ":">>

\* get_tenant_cache_key using the request context's tenant only.
get_tenant_cache_key_of_context(ctx, base_key, tenant_id) ==
    IF Truthy(TMTenant(ctx))
    THEN TenantPrefix \o Str(TMTenant(ctx)) \o <<":">> \o base_key
    ELSE GlobalPrefix \o base_key

get_tenant_cache_key(ctx, base_key, tenant_id) ==
    LET t == IF tenant_id = None THEN TMTenant(ctx) ELSE tenant_id
    IN IF Truthy(t)
       THEN TenantPrefix \o Str(t) \o <<":">> \o base_key
       ELSE GlobalPrefix \o base_key

\* A filter clause model_class.tenant_id == value, and the None returned in
\* its place.
Clause(kind, value) == [kind |-> kind, column |-> "tenant_id", value |-> value]
NoClause == [kind |-> "none", column |-> "none", value |-> None]

\* get_tenant_filter_clause building the clause for every model class.
get_tenant_filter_clause_any_class(ctx, attr, kind, tenant_id) ==
    LET t == IF tenant_id = None THEN TMTenant(ctx) ELSE tenant_id
    IN IF Truthy(t) THEN Clause(kind, t) ELSE NoClause

get_tenant_filter_clause(ctx, attr, kind, tenant_id) ==
    LET t == IF tenant_id = None THEN TMTenant(ctx) ELSE tenant_id
    IN IF Truthy(t) /\ attr[kind] THEN Clause(kind, t) ELSE NoClause

\* Redis' glob matching as scan_iter(match=...) applies it: * stands for any
\* run of characters and ? for any one character.
RECURSIVE GlobMatch(_, _)
GlobMatch(pattern, key) ==
    IF pattern = <<>> THEN key = <<>>
    ELSE IF Head(pattern) = "*"
         THEN \/ GlobMatch(Tail(pattern), key)
              \/ key # <<>> /\ GlobMatch(pattern, Tail(key))
    ELSE /\ key # <<>>
         /\ Head(pattern) = "?" \/ Head(pattern) = Head(key)
         /\ GlobMatch(Tail(pattern), Tail(key))

\* clear_tenant_cache: the cache afterwards and the message logged.
clear_tenant_cache(c, tenant_id) ==
    LET cache_prefix == TenantPrefix \o tenant_id \o <<":">>
        keys_to_delete == {k \in c.keys : GlobMatch(cache_prefix \o <<"*">>, k)}
    IN IF c.backend = "basic"
       THEN [cache |-> c, log |-> "warning: batch deletion"]
       ELSE IF c.backend = "batch"
       THEN [cache |-> c, log |-> "warning: pattern-based deletion"]
       ELSE IF keys_to_delete # {}
       THEN [cache |-> [c EXCEPT !.keys = c.keys \ keys_to_delete], log |-> "info: cleared"]
       ELSE [cache |-> c, log |-> "none"]

\* The base keys, the tenant ids handed in explicitly and the entries the
\* cache holds at the start.
BaseKeys == {<<"k">>, <<"j">>, GlobalPrefix \o <<"k">>}
ExplicitTenants == {None, <<>>, AC, OT}
ClearTenants == {AC, OT, <<"a">>, <<"*">>}
StoredKeys ==
    {TenantPrefix \o AC \o <<":", "k">>, TenantPrefix \o AC \o <<":", "j">>,
     TenantPrefix \o OT \o <<":", "k">>, TenantPrefix \o <<"*", ":", "k">>,
     GlobalPrefix \o <<"k">>}

GetTenantCacheKeyOn(r, base_keys, tenant_ids) ==
    /\ pc[r] = "resolved"
    /\ \E base_key \in base_keys, tenant_id \in tenant_ids :
         last' = [op |-> "get_tenant_cache_key", r |-> r,
                  args |-> <<base_key, tenant_id>>,
                  out |-> get_tenant_cache_key(g[r], base_key, tenant_id)]
    /\ pc' = [pc EXCEPT ![r] = "answered"]
    /\ UNCHANGED <<config, hasTenantAttr, cache, memo, pending, request, g>>

GetTenantCacheKey(r) == GetTenantCacheKeyOn(r, BaseKeys, ExplicitTenants)

GetTenantFilterClauseOn(r, kinds, tenant_ids) ==
    /\ pc[r] = "resolved"
    /\ \E kind \in kinds, tenant_id \in tenant_ids :
         last' = [op |-> "get_tenant_filter_clause", r |-> r,
                  args |-> <<kind, tenant_id>>,
                  out |-> get_tenant_filter_clause(g[r], hasTenantAttr, kind, tenant_id)]
    /\ pc' = [pc EXCEPT ![r] = "answered"]
    /\ UNCHANGED <<config, hasTenantAttr, cache, memo, pending, request, g>>

GetTenantFilterClause(r) == GetTenantFilterClauseOn(r, Kinds, ExplicitTenants)

ClearTenantCache(r) ==
    /\ pc[r] = "resolved"
    /\ \E tenant_id \in ClearTenants :
         LET res == clear_tenant_cache(cache, tenant_id)
         IN /\ cache' = res.cache
            /\ last' = [op |-> "clear_tenant_cache", r |-> r, args |-> <<tenant_id>>,
                        before |-> cache, log |-> res.log, raised |-> FALSE]
    /\ pc' = [pc EXCEPT ![r] = "answered"]
    /\ UNCHANGED <<config, hasTenantAttr, memo, pending, request, g>>

-----------------------------------------------------------------------------
(* TenantManager.get_tenant_database_uri *)

\* A connection string as make_url reads it: the driver name, the part
\* between "://" and "?", and the query parameters in their order.  rendering
\* tells the caller's own text from the text URL.__str__ produces, which
\* escapes the query values.
Param(k, v) == [key |-> k, value |-> v]
Uri(driver, query) ==
    [drivername |-> driver, authority |-> "user:pass@host:5432/db",
     query |-> query, rendering |-> "as given"]

\* str.startswith
StartsWith(s, prefix) ==
    Len(s) >= Len(prefix) /\ SubSeq(s, 1, Len(prefix)) = prefix

Postgresql == <<"p", "o", "s", "t", "g", "r", "e", "s", "q", "l">>
PostgresqlPsycopg2 == Postgresql \o <<"+", "p", "s", "y", "c", "o", "p", "g", "2">>
Mysql == <<"m", "y", "s", "q", "l">>
Sqlite == <<"s", "q", "l", "i", "t", "e">>

SearchPathIs == <<"-", "c", " ", "s", "e", "a", "r", "c", "h", "_", "p", "a", "t", "h", "=">>
CommaPublic == <<",", "p", "u", "b", "l", "i", "c">>

\* get_tenant_database_uri always using the tenant id as the schema.
get_tenant_database_uri_tenant_schema(base_uri, tenant_id, schema_name) ==
    LET others == SelectSeq(base_uri.query, LAMBDA q : q.key # "options")
        given == SelectSeq(base_uri.query, LAMBDA q : q.key = "options")
        options == IF given = <<>> THEN <<>> ELSE given[1].value
        search_path_option == SearchPathIs \o Str(tenant_id) \o CommaPublic
        value == IF options # <<>> THEN options \o <<" ">> \o search_path_option
                 ELSE search_path_option
    IN IF StartsWith(base_uri.drivername, Postgresql)
       THEN [base_uri EXCEPT !.query = Append(others, Param("options", value)),
                             !.rendering = "URL.__str__"]
       ELSE base_uri

get_tenant_database_uri(base_uri, tenant_id, schema_name) ==
    LET schema == IF ~Truthy(schema_name) THEN tenant_id ELSE schema_name
        others == SelectSeq(base_uri.query, LAMBDA q : q.key # "options")
        given == SelectSeq(base_uri.query, LAMBDA q : q.key = "options")
        options == IF given = <<>> THEN <<>> ELSE given[1].value
        search_path_option == SearchPathIs \o Str(schema) \o CommaPublic
        value == IF options # <<>> THEN options \o <<" ">> \o search_path_option
                 ELSE search_path_option
    IN IF StartsWith(base_uri.drivername, Postgresql)
       THEN [base_uri EXCEPT !.query = Append(others, Param("options", value)),
                             !.rendering = "URL.__str__"]
       ELSE base_uri

StatementOption == <<"-", "c", " ", "a", "=", "1">>
Require == <<"r", "e", "q", "u", "i", "r", "e">>
SC == <<"s", "c">>

UriDrivers == {Postgresql, PostgresqlPsycopg2, Mysql, Sqlite}
UriQueries ==
    {<<>>,
     <<Param("sslmode", Require)>>,
     <<Param("options", StatementOption)>>,
     <<Param("options", StatementOption), Param("sslmode", Require)>>,
     <<Param("options", <<>>)>>}
BaseUris == {Uri(d, q) : d \in UriDrivers, q \in UriQueries}
SchemaNames == {None, <<>>, SC}

GetTenantDatabaseUriOn(r, base_uris, tenant_ids, schema_names) ==
    /\ pc[r] = "resolved"
    /\ \E base_uri \in base_uris, tenant_id \in tenant_ids, schema_name \in schema_names :
         last' = [op |-> "get_tenant_database_uri", r |-> r,
                  args |-> <<base_uri, tenant_id, schema_name>>,
                  out |-> get_tenant_database_uri(base_uri, tenant_id, schema_name)]
    /\ pc' = [pc EXCEPT ![r] = "answered"]
    /\ UNCHANGED <<config, hasTenantAttr, cache, memo, pending, request, g>>

GetTenantDatabaseUri(r) == GetTenantDatabaseUriOn(r, BaseUris, {AC, OT}, SchemaNames)

-----------------------------------------------------------------------------
(* TenantManager.validate_tenant_access *)

\* admin: what security_manager.is_admin() answers for the caller.
validate_tenant_access(ctx, admin, resource_tenant_id) ==
    IF TMTenant(ctx) = None THEN admin
    ELSE TMTenant(ctx) = resource_tenant_id

\* The tenant labels of the resources asked about.
ResourceLabels == {None, <<>>, AC, OT}

ValidateTenantAccess(r) ==
    /\ pc[r] = "resolved"
    /\ \E resource_tenant_id \in ResourceLabels :
         last' = [op |-> "validate_tenant_access", r |-> r,
                  args |-> <<resource_tenant_id>>,
                  out |-> validate_tenant_access(g[r], is_admin(request[r]),
                                                 resource_tenant_id)]
    /\ pc' = [pc EXCEPT ![r] = "answered"]
    /\ UNCHANGED <<config, hasTenantAttr, cache, memo, pending, request, g>>

-----------------------------------------------------------------------------
(* Tenant-manager specification: a request is resolved and the view then   *)
(* derives cache keys, filter clauses and connection strings and clears    *)
(* tenants' cache entries.                                                 *)

ManagerRequests ==
    {Req(hd, None, HostBare, User(a, None, NoExtra)) :
        hd \in {None, AC, <<" ">>}, a \in BOOLEAN}

InitManager ==
    /\ config = [tenant_header |-> DefaultTenantHeader,
                 enable_subdomain_routing |-> FALSE, default_tenant |-> None]
    /\ hasTenantAttr \in Deployments
    /\ cache \in [backend : CacheBackends, keys : {StoredKeys}]
    /\ InitCommon

ArriveManager(r) == Arrive(r, ManagerRequests)

NextManager ==
    \E r \in Requests :
        \/ ArriveManager(r)
        \/ set_tenant_context(r)
        \/ tm_get_current_tenant_id(r)
        \/ GetTenantCacheKey(r)
        \/ GetTenantFilterClause(r)
        \/ GetTenantDatabaseUri(r)
        \/ ClearTenantCache(r)
        \/ ValidateTenantAccess(r)
        \/ Continue(r)
        \/ Teardown(r)

SpecManager == InitManager /\ [][NextManager]_vars

-----------------------------------------------------------------------------
(* Concurrent specification: requests are in flight together, each with    *)
(* its own request context; every operation of the security manager and    *)
(* of the tenant manager that reads the context takes part, on one choice  *)
(* of arguments each.                                                      *)

\* Requests that differ in the header, in the host and in the principal.
ConcurrentRequests ==
    {Req(AC, None, HostBare, User(FALSE, None, NoExtra)),
     Req(OT, None, HostBare, User(FALSE, None, NoExtra)),
     Req(None, None, HostAc, User(FALSE, None, NoExtra)),
     Req(None, None, HostBare, User(FALSE, DR, NoExtra))}

InitConcurrent ==
    /\ config \in [tenant_header : {DefaultTenantHeader},
                    enable_subdomain_routing : BOOLEAN,
                    default_tenant : {None, DF}]
    /\ hasTenantAttr = [k \in Kinds |-> TRUE]
    /\ cache = EmptyCache
    /\ InitCommon

EnterConcurrent(r) == Enter(r, ConcurrentRequests)

\* The operations that read the request context, each called by the view on
\* one choice of arguments.
NextConcurrent ==
    \E r \in Requests :
        \/ EnterConcurrent(r)
        \/ set_tenant_context(r)
        \/ get_current_tenant_id(r)
        \/ tm_get_current_tenant_id(r)
        \/ CanAccessDatabaseOn(r, {Resource("Database", 1, AC, 0)}, {TRUE})
        \/ CanAccessDatasourceOn(r, {Resource("Datasource", 33, OT, 1)}, {TRUE})
        \/ RaiseForAccessOn(r, {Resource("Dashboard", 11, AC, 0)}, {NoResource},
                            {NoResource}, {NoResource}, {FALSE})
        \/ GetUserDatasourcesOn(r, {Datasources}, {{}}, {Datasources})
        \/ GetDatasourcesAccessibleByUserOn(r, {Resource("Database", 1, AC, 0)},
                                            {DatasourceNames})
        \/ GetTenantCacheKeyOn(r, {<<"k">>}, {None})
        \/ GetTenantFilterClauseOn(r, {"Dashboard"}, {None})
        \/ GetTenantDatabaseUriOn(r, {Uri(Postgresql, <<>>)}, {AC}, {None})
        \/ Continue(r)
        \/ Teardown(r)

SpecConcurrent == InitConcurrent /\ [][NextConcurrent]_vars

-----------------------------------------------------------------------------
(* Vocabulary of the properties *)

\* get_current_tenant_id() gave a tenant: neither None nor an exception.
Resolved(t) == t # None /\ t # AttributeError

DecisionOps == {"can_access_database", "can_access_datasource", "raise_for_access"}

\* The resources the latest raise_for_access was given.
LastSupplied == Supplied(last.args[1], last.args[2], last.args[3], last.args[4])

\* The latest step is a decision on one resource, made under a tenant.
SingleDecision ==
    /\ last.op \in DecisionOps
    /\ Resolved(last.tenant)
    /\ last.op = "raise_for_access" => Len(LastSupplied) = 1

\* The resource the latest single-resource decision is about.
Subject == IF last.op = "raise_for_access" THEN Head(LastSupplied) ELSE last.args[1]

\* The label a resource carries: None both when the attribute does not exist
\* and when the column is null.
LabelOf(res) == IF hasTenantAttr[res.kind] THEN res.tenant_id ELSE None

\* The label is a tenant, and not the tenant t.
OtherTenant(label, t) == label # None /\ label # t

\* The caller got what the parent answered (or raised).
PassesThrough ==
    IF last.op = "raise_for_access"
    THEN last.out.status = (IF last.under THEN "underlying" ELSE "return")
    ELSE last.out.status = "return" /\ last.out.value = last.under

\* The caller got a denial.
Denied ==
    IF last.op = "raise_for_access"
    THEN last.out.status = "SupersetSecurityException"
    ELSE last.out.status = "return" /\ last.out.value = FALSE

-----------------------------------------------------------------------------
(* C1 *)

-----------------------------------------------------------------------------
(* C2 *)

\* C2 as claimed: a resource without a tenant label, whether the attribute is
\* missing or the column is null, gets the parent's outcome under every tenant.
C2_AsClaimed ==
    ( /\ SingleDecision
      /\ LabelOf(Subject) = None
      /\ last.op = "can_access_datasource"
             => ~OtherTenant(LabelOf(DatabaseOf(Subject)), last.tenant) )
    => PassesThrough

-----------------------------------------------------------------------------
(* C3 *)

\* C3: under a tenant X, raise_for_access given a resource labelled with
\* another tenant raises SupersetSecurityException without invoking the
\* parent, and the message names the kind and id of a supplied resource that
\* is not labelled X; given only resources labelled X it invokes the parent
\* once with its own arguments and raises nothing of its own.  A request with
\* header X-Tenant-ID: ac is let through to the parent for the dashboard
\* labelled ac, and with header ot it is denied with a message naming
\* Dashboard 11.
C3_RaiseForAccess ==
    (last.op = "raise_for_access" /\ Resolved(last.tenant)) =>
        LET n == Len(LastSupplied)
            theDashboard == Resource("Dashboard", 11, AC, 0)
            header == request[last.r].headers[DefaultTenantHeader]
        IN /\ (\E i \in 1..n : OtherTenant(LabelOf(LastSupplied[i]), last.tenant))
              => /\ last.out.status = "SupersetSecurityException"
                 /\ last.out.calls = <<>>
                 /\ \E i \in 1..n :
                       /\ LabelOf(LastSupplied[i]) # last.tenant
                       /\ last.out.value.kind = LastSupplied[i].kind
                       /\ last.out.value.id = LastSupplied[i].id
           /\ (\A i \in 1..n : LabelOf(LastSupplied[i]) = last.tenant)
              => /\ last.out.calls = <<last.args>>
                 /\ PassesThrough
           /\ ( /\ hasTenantAttr["Dashboard"]
                /\ config.tenant_header = DefaultTenantHeader
                /\ LastSupplied = <<theDashboard>> )
              => /\ header = AC => last.out.calls = <<last.args>> /\ PassesThrough
                 /\ header = OT => /\ Denied
                                   /\ last.out.calls = <<>>
                                   /\ last.out.value.kind = "Dashboard"
                                   /\ last.out.value.id = 11

\* The request with header ot was denied the dashboard labelled ac, by name,
\* although the parent would not have raised.
C3_Witness ==
    /\ last.op = "raise_for_access"
    /\ request[last.r].headers[DefaultTenantHeader] = OT
    /\ hasTenantAttr["Dashboard"]
    /\ LastSupplied = <<Resource("Dashboard", 11, AC, 0)>>
    /\ last.under = FALSE
    /\ last.out = Raised("SupersetSecurityException", <<>>,
                         [kind |-> "Dashboard", id |-> 11, tenant |-> OT])

-----------------------------------------------------------------------------
(* C4 *)

\* C4 as claimed: under a tenant X, a datasource whose database is labelled
\* with another tenant is denied by can_access_datasource and by
\* raise_for_access and is left out of get_user_datasources.
C4_AsClaimed ==
    /\ (last.op = "can_access_datasource" /\ Resolved(last.tenant))
       => (OtherTenant(LabelOf(DatabaseOf(last.args[1])), last.tenant) => Denied)
    /\ (last.op = "raise_for_access" /\ Resolved(last.tenant))
       => ( ( /\ last.args[4] # NoResource
              /\ OtherTenant(LabelOf(DatabaseOf(last.args[4])), last.tenant) )
            => Denied )
    /\ (last.op = "get_user_datasources" /\ Resolved(last.tenant))
       => \A ds \in last.out.value :
             ~OtherTenant(LabelOf(DatabaseOf(ds)), last.tenant)

-----------------------------------------------------------------------------
(* C5 *)

\* The datasource passes the parent's logic: the dataset access filter lets it
\* through, or the parent allows its database.
UnderlyingAccessible(ds) ==
    ds \in last.under.acc \/ DatabaseOf(ds) \in last.under.dbAcc

\* The part of C5 both forms share: no bulk listing raises a denial, and
\* get_datasources_accessible_by_user answers [] for a database labelled with
\* another tenant and the parent's list for a database labelled T.
C5_Common ==
    /\ (last.op = "get_user_datasources" /\ Resolved(last.tenant))
       => /\ last.out.status = "return"
          /\ \A ds \in last.out.value : UnderlyingAccessible(ds)
    /\ (last.op = "get_datasources_accessible_by_user" /\ Resolved(last.tenant))
       => /\ last.out.status = "return"
          /\ OtherTenant(LabelOf(last.args[1]), last.tenant) => last.out.value = <<>>
          /\ LabelOf(last.args[1]) = last.tenant => last.out.value = last.under

-----------------------------------------------------------------------------
(* C6 *)

\* The X-Tenant-ID header of the request is absent or empty.
NoImpersonation(rq) == ~Truthy(rq.headers[DefaultTenantHeader])

\* C6 as claimed: for an administrator's request in which set_tenant_context
\* stored no tenant and X-Tenant-ID is absent or empty, the security manager's
\* get_current_tenant_id returns None and get_user_datasources returns the
\* parent's listing.
C6_AsClaimed ==
    ( /\ last.op \in {"get_current_tenant_id", "get_user_datasources"}
      /\ is_admin(request[last.r])
      /\ g[last.r].tenant_id = None
      /\ NoImpersonation(request[last.r]) )
    => IF last.op = "get_current_tenant_id"
       THEN last.out = None
       ELSE last.out = Returned(<< <<>> >>, last.under.underList)

-----------------------------------------------------------------------------
(* C7 *)

\* C7 as claimed: both tenant look-ups return the tenant set_tenant_context
\* stored, except that the security manager returns an administrator's
\* non-empty X-Tenant-ID when none was stored; and for a non-administrator
\* with no stored tenant every decision is the parent's.
C7_AsClaimed ==
    LET rq == request[last.r]
        stored == g[last.r].tenant_id
    IN /\ last.op = "get_current_tenant_id"
          => \/ last.out = stored
             \/ /\ is_admin(rq) /\ stored = None /\ ~NoImpersonation(rq)
                /\ last.out = rq.headers[DefaultTenantHeader]
       /\ last.op = "tm_get_current_tenant_id" => last.out = stored
       /\ (last.op \in DecisionOps /\ ~is_admin(rq) /\ stored = None)
          => PassesThrough
       /\ ( /\ last.op = "get_datasources_accessible_by_user"
            /\ ~is_admin(rq) /\ stored = None )
          => last.out = Returned(<< <<last.args[1], DatasourceNames>> >>, last.under)

-----------------------------------------------------------------------------
(* C8 *)

\* The request with its X-Tenant-ID header replaced by h.
WithHeader(rq, h) == [rq EXCEPT !.headers[DefaultTenantHeader] = h]

\* The tenant the security manager decides with for a request, end to end.
DecidingTenant(rq) == GateTenant(ResolveTenant(config, rq), rq)

\* C8 as claimed: for a non-administrator the tenant the decisions are made
\* with, and so the decision on a database, is the same whatever the value of
\* the X-Tenant-ID header is.
C8_AsClaimed ==
    \A r \in Requests :
        (pc[r] = "answered" /\ ~is_admin(request[r])) =>
            \A h \in {None, <<>>, AC, OT} :
                /\ DecidingTenant(WithHeader(request[r], h)) = DecidingTenant(request[r])
                /\ last.op = "can_access_database"
                   => can_access_database(DecidingTenant(WithHeader(request[r], h)),
                                          hasTenantAttr, last.args[1], last.under)
                      = last.out

-----------------------------------------------------------------------------
(* C9 *)

\* t is s without its leading and trailing whitespace.
IsTrimOf(t, s) ==
    \E i, j \in 0..Len(s) :
        /\ i + j <= Len(s)
        /\ t = SubSeq(s, i + 1, Len(s) - j)
        /\ \A k \in 1..i : s[k] \in Whitespace
        /\ \A k \in (Len(s) - j + 1)..Len(s) : s[k] \in Whitespace
        /\ t # <<>> => (t[1] \notin Whitespace /\ t[Len(t)] \notin Whitespace)

\* The value of the configured tenant header of request r.
TenantHeaderOf(r) == request[r].headers[config.tenant_header]

\* C9 as claimed: whenever the configured tenant header holds a non-empty
\* value, the stored source is "header" and the stored tenant is that value
\* trimmed.
C9_AsClaimed ==
    \A r \in Requests :
        (g[r].set /\ Truthy(TenantHeaderOf(r))) =>
            /\ g[r].tenant_source = "header"
            /\ IsTrimOf(g[r].tenant_id, TenantHeaderOf(r))

\* C9 amended: whenever the configured tenant header holds a value that is
\* non-empty after trimming (it has a character that is not whitespace), the
\* stored source is "header" and the stored tenant is that value trimmed,
\* whatever the host, the principal and the configured default are.
C9_HeaderWins ==
    \A r \in Requests :
        ( /\ g[r].set
          /\ Truthy(TenantHeaderOf(r))
          /\ \E k \in 1..Len(TenantHeaderOf(r)) :
                TenantHeaderOf(r)[k] \notin Whitespace )
        => /\ g[r].tenant_source = "header"
           /\ IsTrimOf(g[r].tenant_id, TenantHeaderOf(r))

\* A header " ac " won over a tenant subdomain, a claim, a direct attribute
\* and a configured default, and was stored trimmed.
C9_Witness ==
    \E r \in Requests :
        /\ g[r].set
        /\ TenantHeaderOf(r) = <<" ", "a", "c", " ">>
        /\ extract_tenant_from_subdomain(config, request[r].host) = OT
        /\ extract_tenant_from_oidc_claims(request[r].user) = CL
        /\ request[r].user.tenant_id = DR
        /\ config.default_tenant = DF
        /\ g[r].tenant_id = AC /\ g[r].tenant_source = "header"

-----------------------------------------------------------------------------
(* C10 *)

\* The candidate of each tier, in priority order, with the tier's tag; a
\* header that is empty after trimming yields no candidate.
Tiers(cfg, rq) ==
    LET h == rq.headers[cfg.tenant_header]
    IN << [c |-> IF Truthy(h) /\ Strip(h) # <<>> THEN Strip(h) ELSE None,
           s |-> "header"],
          [c |-> extract_tenant_from_subdomain(cfg, rq.host), s |-> "subdomain"],
          [c |-> extract_tenant_from_oidc_claims(rq.user), s |-> "oidc"],
          [c |-> cfg.default_tenant, s |-> "default"] >>

\* C10 as claimed: the stored pair is the candidate and tag of the first tier
\* that yields one, and (None, "none") when no tier does; so the source is
\* "none" exactly when the tenant is None, and the tenant is never "".
C10_AsClaimed ==
    \A r \in Requests :
        g[r].set =>
            LET yielding == SelectSeq(Tiers(config, request[r]), LAMBDA x : Truthy(x.c))
            IN /\ IF yielding = <<>>
                  THEN g[r].tenant_id = None /\ g[r].tenant_source = "none"
                  ELSE /\ g[r].tenant_id = Head(yielding).c
                       /\ g[r].tenant_source = Head(yielding).s
               /\ g[r].tenant_source = "none" <=> g[r].tenant_id = None
               /\ g[r].tenant_id # <<>>

-----------------------------------------------------------------------------
(* C11 *)

\* The positions of the dots of a host, the number of labels they separate
\* and the label in front of the first dot.
DotPositions(host) == {i \in 1..Len(host) : host[i] = "."}
LabelCount(host) == Cardinality(DotPositions(host)) + 1
LeftmostLabel(host) ==
    IF DotPositions(host) = {} THEN host
    ELSE SubSeq(host, 1, (CHOOSE i \in DotPositions(host) :
                             \A j \in DotPositions(host) : i <= j) - 1)

ReservedSubdomains ==
    {<<"w", "w", "w">>, <<"a", "p", "i">>, <<"a", "d", "m", "i", "n">>,
     <<"s", "t", "a", "t", "i", "c">>, <<"c", "d", "n">>}

\* The latest step is a set_tenant_context that consulted the subdomain tier.
SubdomainConsulted ==
    last.op = "set_tenant_context" /\ last.trace.subdomain_tenant # NotCalled

\* C11: extract_tenant_from_subdomain returns the lower-cased leftmost label of
\* the host exactly when subdomain routing is enabled, the host has more than
\* two dot-separated labels and the lower-cased leftmost label is not one of
\* www, api, admin, static, cdn; otherwise (two or fewer labels, routing
\* disabled, a reserved label in any letter case) it returns None.
C11_SubdomainCandidate ==
    SubdomainConsulted =>
        LET host == request[last.r].host
            label == Lower(LeftmostLabel(host))
        IN IF /\ config.enable_subdomain_routing
              /\ LabelCount(host) > 2
              /\ label \notin ReservedSubdomains
           THEN last.trace.subdomain_tenant = label
           ELSE last.trace.subdomain_tenant = None

\* With routing enabled the host Ot.ex.co gave the candidate "ot".
C11_Witness ==
    /\ SubdomainConsulted
    /\ config.enable_subdomain_routing
    /\ request[last.r].host = HostUpper
    /\ last.trace.subdomain_tenant = OT

-----------------------------------------------------------------------------
(* C12 *)

\* The principal carries a non-empty direct tenant attribute and a claim set
\* holding one of the tenant claim keys with a different value.
DirectAndClaim(user) ==
    /\ user.kind = "user"
    /\ Truthy(user.tenant_id)
    /\ user.extra.kind = "map"
    /\ \E i \in 1..Len(tenant_claims) :
          /\ user.extra.claims[tenant_claims[i]] # Missing
          /\ user.extra.claims[tenant_claims[i]] # user.tenant_id

\* The latest step is a set_tenant_context that consulted the claim tier.
OidcConsulted ==
    last.op = "set_tenant_context" /\ last.trace.oidc_tenant # NotCalled

\* C12 as claimed: for a principal with a non-empty direct tenant attribute
\* and a tenant claim of a different value, the claim tier of the middleware
\* yields the direct attribute's value.
C12_AsClaimed ==
    (OidcConsulted /\ DirectAndClaim(request[last.r].user))
    => last.trace.oidc_tenant = request[last.r].user.tenant_id

-----------------------------------------------------------------------------
(* C13 *)

\* The fixed order in which the claim keys are looked for.
ClaimOrder == <<"tenant_id", "tenant", "org_id", "organization", "company_id">>

\* The claim tier was consulted for a principal whose claims are a mapping.
ClaimsScanned ==
    /\ OidcConsulted
    /\ request[last.r].user.kind = "user"
    /\ request[last.r].user.extra.kind = "map"

\* C13: when the claim set is scanned, the tier returns str() of the value of
\* the first key of tenant_id, tenant, org_id, organization, company_id that
\* the set holds; a later key is used only when every earlier one is absent;
\* a key written in another letter case (Tenant_ID) is not a match, so that
\* with none of the five present the claims give nothing and the tier answers
\* from the direct attribute.
C13_FirstClaimPresent ==
    ClaimsScanned =>
        LET user == request[last.r].user
            m == user.extra.claims
            present == {i \in 1..Len(ClaimOrder) : m[ClaimOrder[i]] # Missing}
        IN IF present # {}
           THEN \E i \in present :
                   /\ \A j \in 1..(i - 1) : m[ClaimOrder[j]] = Missing
                   /\ last.trace.oidc_tenant = Str(m[ClaimOrder[i]])
           ELSE last.trace.oidc_tenant =
                    (IF Truthy(user.tenant_id) THEN user.tenant_id ELSE None)

\* From {"tenant": "cl", "company_id": "og"} the tier took "cl".
C13_Witness ==
    /\ ClaimsScanned
    /\ request[last.r].user.extra.claims = Claims2("tenant", CL, "company_id", OG)
    /\ last.trace.oidc_tenant = CL

-----------------------------------------------------------------------------
(* C14 *)

\* The principal's claim payload is malformed: a string that does not parse,
\* or parsed data that is not a mapping.
MalformedPayload(user) ==
    user.kind = "user" /\ user.extra.kind \in {"malformed", "scalar", "list"}

\* C14 as claimed: when the claim tier is consulted for a malformed payload,
\* resolution does not raise, the tier yields no candidate and logs a warning,
\* and the stored pair is (default, "default") when a default is configured
\* and (None, "none") otherwise.
C14_AsClaimed ==
    (OidcConsulted /\ MalformedPayload(request[last.r].user)) =>
        /\ ~last.trace.raised
        /\ last.trace.oidc_tenant = None
        /\ last.trace.oidc_warning
        /\ g[last.r].tenant_id =
               (IF Truthy(config.default_tenant) THEN config.default_tenant ELSE None)
        /\ g[last.r].tenant_source =
               (IF Truthy(config.default_tenant) THEN "default" ELSE "none")

-----------------------------------------------------------------------------
(* C15 *)

\* C15: with requests in flight together, the tenant and source of a request
\* context change only when the before_request hook writes them, once, from
\* unset to set (or when the context is created or torn down); every
\* operation of the security manager and the tenant manager runs after the
\* hook and leaves them as they are; and what a request's context holds is
\* what set_tenant_context yields for that request's own header, host and
\* principal under the configuration, whatever the other requests are.
C15_WriteOnce ==
    [][\A r \in Requests :
          /\ g'[r] # g[r]
                => \/ /\ pc[r] = "arrived" /\ pc'[r] = "resolved"
                      /\ ~g[r].set /\ g'[r].set
                   \/ /\ pc'[r] \in {"idle", "arrived"}
                      /\ g'[r] = EmptyG
          /\ (pc[r] = "resolved" /\ pc'[r] = "answered")
                => g[r].set /\ g'[r] = g[r]
          /\ pc'[r] \in {"idle", "arrived"} => ~g'[r].set
          /\ pc'[r] \in {"resolved", "answered"}
                => g'[r] = ResolveTenant(config, request'[r])]_vars

\* Request 1, resolved to ac, got a decision while request 2, resolved to ot,
\* was in flight.
C15_Witness ==
    /\ pc[1] = "answered" /\ pc[2] = "resolved"
    /\ last.op = "can_access_database" /\ last.r = 1
    /\ g[1].tenant_id = AC /\ g[1].tenant_source = "header"
    /\ g[2].tenant_id = OT /\ g[2].tenant_source = "header"

-----------------------------------------------------------------------------
(* C16 *)

\* The characters of the TenantId pattern ^[A-Za-z0-9_-]{2,50}$.
PatternChars == AsciiLetters \cup AsciiDigits \cup {"_", "-"}

\* v is a string that matches the TenantId pattern.
MatchesTenantId(v) ==
    /\ v \notin NonStrings
    /\ Len(v) >= 2 /\ Len(v) <= 50
    /\ \A i \in 1..Len(v) : v[i] \in PatternChars

\* C16 as claimed: is_valid_tenant(t) returns True exactly when t is a string
\* matching ^[A-Za-z0-9_-]{2,50}$ and returns False for every other input,
\* non-string input included.
C16_AsClaimed ==
    last.op = "is_valid_tenant" =>
        /\ last.out.status = "return"
        /\ last.out.value = MatchesTenantId(last.args[1])

-----------------------------------------------------------------------------
(* C17 *)

\* C17: get_tenant_cache_key(K, T) returns "tenant:" T ":" K, where T is the
\* tenant id handed in or, when none is handed in, the tenant of the request
\* context, and "global:" K when that tenant is None or empty; a K that
\* begins with "global:" is prefixed all the same.
C17_CacheKey ==
    last.op = "get_tenant_cache_key" =>
        LET K == last.args[1]
            T == IF last.args[2] # None THEN last.args[2] ELSE g[last.r].tenant_id
        IN /\ T \notin {None, <<>>}
              => last.out = <<"t", "e", "n", "a", "n", "t", ":">> \o T \o <<":">> \o K
           /\ T \in {None, <<>>}
              => last.out = <<"g", "l", "o", "b", "a", "l", ":">> \o K
           /\ (T \in {None, <<>>} /\ K = <<"g", "l", "o", "b", "a", "l", ":", "k">>)
              => last.out = <<"g", "l", "o", "b", "a", "l", ":", "g", "l", "o", "b", "a", "l", ":", "k">>

\* In a request resolved to tenant ac the key for tenant ot was asked for.
C17_Witness ==
    /\ last.op = "get_tenant_cache_key"
    /\ g[last.r].tenant_id = AC
    /\ last.args = << <<"k">>, OT >>
    /\ last.out = <<"t", "e", "n", "a", "n", "t", ":", "o", "t", ":", "k">>

-----------------------------------------------------------------------------
(* C18 *)

\* C18 as claimed: clear_tenant_cache(T) raises nothing; on a backend with
\* batch deletion and enumeration it removes exactly the entries whose key
\* begins with "tenant:" T ":" and leaves every other entry; on a backend
\* without one of the two it leaves the cache as it was and logs a warning.
C18_AsClaimed ==
    last.op = "clear_tenant_cache" =>
        LET prefix == <<"t", "e", "n", "a", "n", "t", ":">> \o last.args[1] \o <<":">>
        IN /\ ~last.raised
           /\ cache.backend = last.before.backend
           /\ IF last.before.backend = "redis"
              THEN cache.keys = {k \in last.before.keys : ~StartsWith(k, prefix)}
              ELSE /\ cache = last.before
                   /\ last.log \in {"warning: batch deletion",
                                    "warning: pattern-based deletion"}

-----------------------------------------------------------------------------
(* C19 *)

\* C19: get_tenant_filter_clause(kind, T) returns the predicate "kind's
\* tenant_id equals T", T being the tenant id handed in or else the tenant of
\* the request context, when the kind carries a tenant_id attribute and that
\* tenant is neither None nor empty; otherwise it returns no predicate.
C19_FilterClause ==
    last.op = "get_tenant_filter_clause" =>
        LET kind == last.args[1]
            T == IF last.args[2] # None THEN last.args[2] ELSE g[last.r].tenant_id
        IN IF hasTenantAttr[kind] /\ T \notin {None, <<>>}
           THEN last.out = [kind |-> kind, column |-> "tenant_id", value |-> T]
           ELSE last.out = NoClause

\* In a request resolved to tenant ac the clause for databases, which carry
\* the attribute, compares tenant_id with ac.
C19_Witness ==
    /\ last.op = "get_tenant_filter_clause"
    /\ g[last.r].tenant_id = AC
    /\ hasTenantAttr["Database"] /\ ~hasTenantAttr["Datasource"]
    /\ last.args = <<"Database", None>>
    /\ last.out = [kind |-> "Database", column |-> "tenant_id", value |-> AC]

-----------------------------------------------------------------------------
(* C20 *)

\* The parameters of a query other than options, and the values of options.
OtherParams(query) == {query[i] : i \in {j \in 1..Len(query) : query[j].key # "options"}}
OptionsValues(query) ==
    {query[i].value : i \in {j \in 1..Len(query) : query[j].key = "options"}}

\* C20: get_tenant_database_uri(base, T, schema) returns base itself when the
\* driver is not a PostgreSQL one; for a PostgreSQL driver the result has
\* base's query parameters other than options and one options parameter whose value is the options base had, if any,
\* then "-c search_path=<schema>,public", where <schema> is the schema name
\* handed in or, without one, T.
C20_DatabaseUri ==
    last.op = "get_tenant_database_uri" =>
        LET base == last.args[1]
            T == last.args[2]
            schema == IF last.args[3] \notin {None, <<>>} THEN last.args[3] ELSE T
            had == OptionsValues(base.query) \ {<<>>}
            front == IF had = {} THEN <<>> ELSE (CHOOSE v \in had : TRUE) \o <<" ">>
        IN IF base.drivername \notin {Postgresql, PostgresqlPsycopg2}
           THEN last.out = base
           ELSE /\ OtherParams(last.out.query) = OtherParams(base.query)
                /\ Len(last.out.query) = Cardinality(OtherParams(base.query)) + 1
                /\ OptionsValues(last.out.query) =
                       {front \o <<"-", "c", " ", "s", "e", "a", "r", "c", "h", "_", "p", "a", "t", "h", "=">> \o schema \o <<",", "p", "u", "b", "l", "i", "c">>}

\* A psycopg2 connection string with options and sslmode got the schema sc
\* appended to its options and kept sslmode.
C20_Witness ==
    /\ last.op = "get_tenant_database_uri"
    /\ last.args = <<Uri(PostgresqlPsycopg2,
                         <<Param("options", StatementOption), Param("sslmode", Require)>>),
                     AC, SC>>
    /\ last.out.query =
          <<Param("sslmode", Require),
            Param("options", <<"-", "c", " ", "a", "=", "1", " ", "-", "c", " ", "s", "e", "a", "r", "c", "h", "_", "p", "a", "t", "h", "=", "s", "c", ",", "p", "u", "b", "l", "i", "c">>)>>

-----------------------------------------------------------------------------
(* C21 *)

\* C21 as claimed: when the request context holds a tenant X,
\* validate_tenant_access(label) returns True exactly when label is X; when
\* it holds no tenant (None, or the empty string, which is no tenant id) it
\* returns True for an administrator, whatever the label.
C21_AsClaimed ==
    last.op = "validate_tenant_access" =>
        LET stored == g[last.r].tenant_id
            label == last.args[1]
        IN /\ Truthy(stored) => last.out = (label = stored)
           /\ (~Truthy(stored) /\ is_admin(request[last.r])) => last.out = TRUE

-----------------------------------------------------------------------------
(* C22 *)

\* C22 as claimed: when raise_for_access is given a saved query alone, under
\* a tenant X, and the saved query is labelled with another tenant, the
\* caller gets the tenant denial and the parent's check is never invoked.
C22_AsClaimed ==
    (/\ last.op = "raise_for_access_kwargs"
     /\ Resolved(last.tenant)
     /\ LastSupplied = <<>>
     /\ OtherTenant(last.args[5].tenant_id, last.tenant))
    => (last.out.status = "SupersetSecurityException" /\ last.out.calls = <<>>)

-----------------------------------------------------------------------------
(* C23 *)

\* A call that completes returns what the body of is_valid_tenant gives for
\* its argument.
AnswersAsComputed ==
    last'.op = "is_valid_tenant" =>
        last'.out = Returned(<<>>, is_valid_tenant(last'.args[1]))

\* The cache holds at most maxsize entries.
WithinCapacity == Len(memo') <= maxsize

\* An argument stored in a full cache takes the place of the least recently
\* used entry.
EvictsLeastRecentlyUsed ==
    (Len(memo) = maxsize /\ MemoIndex(memo, memo'[Len(memo')].arg) = {})
    => memo' = Append(Tail(memo), memo'[Len(memo')])

\* C23 as claimed: however concurrent is_valid_tenant calls interleave, every
\* call returns the value the syntactic rule gives for its argument, the
\* cache never holds more than 100 entries, and a store into a full cache
\* evicts the least recently used entry.
C23_AsClaimed ==
    [][AnswersAsComputed /\ WithinCapacity /\ EvictsLeastRecentlyUsed]_vars

=============================================================================
